---- MODULE Spec2Model ----
(***************************************************************************)
(* Contract revision validation core of hostd (package rhp,                *)
(* src/rhp/contracts.go).  The validators and constructors are pure Go     *)
(* functions over FileContractRevision values whose proof outputs are Go   *)
(* slices: a slice is modelled as an address into `heap`, so that a write  *)
(* through a copied slice header is seen by every holder of that header.   *)
(* types.Currency is an unsigned integer whose Add and Sub panic when the  *)
(* result leaves the range; SubWithUnderflow reports it instead.           *)
(***************************************************************************)
EXTENDS Integers, Sequences, FiniteSets, TLC

\* ------------------------------------------------------------------ bounds
\* Largest Currency value of the model (the code's is 2^128 - 1).
MaxCurrency == 1
\* Largest revision number of the model (the code's is math.MaxUint64).
MaxRevisionNumber == 3
\* Longest proof output list a revision of the model carries.
MaxOutputs == 3
\* Largest block height and window length (math.MaxUint64 of the heights).
MaxHeight == 3
\* Longest error list a volume of the model keeps (the code's is 100).
MaxErrors == 2
\* Goroutines calling into the storage manager and its volume.
NumProcs == 2
\* Calls the goroutines of the model begin in all.
MaxCalls == 4

Currency == 0..MaxCurrency

\* ------------------------------------------------------------- data model
RenterAddress == "renter"
HostAddress == "host"
VoidAddress == "void"
OtherAddress == "other"

\* Address the well-formed contract of the model gives output i (0-based
\* renter, host, void; any further output goes elsewhere).
StdAddress(i) ==
  CASE i = 1 -> RenterAddress
    [] i = 2 -> HostAddress
    [] i = 3 -> VoidAddress
    [] OTHER -> OtherAddress

EmptyHash == 0
RenterKey == 1
HostKey == 2

\* Mutation of contractUnlockConditions: the host's key comes first.
contractUnlockConditionsHostFirst(hostKey, renterKey) ==
  [PublicKeys |-> <<hostKey, renterKey>>, SignaturesRequired |-> 2]

contractUnlockConditions(hostKey, renterKey) ==
  [PublicKeys |-> <<renterKey, hostKey>>, SignaturesRequired |-> 2]

\* UnlockConditions.UnlockHash(): a digest of the keys and the signature
\* count, distinct for distinct conditions of the model and never EmptyHash.
UnlockHash(uc) ==
  100 * uc.SignaturesRequired + 10 * uc.PublicKeys[1] + uc.PublicKeys[2]

\* The zero value types.FileContractRevision{} (nil slices are address 0).
EmptyRevision ==
  [ParentID |-> 0,
   UnlockConditions |-> [PublicKeys |-> <<0, 0>>, SignaturesRequired |-> 0],
   Filesize |-> 0, FileMerkleRoot |-> EmptyHash,
   WindowStart |-> 0, WindowEnd |-> 0,
   ValidProofOutputs |-> 0, MissedProofOutputs |-> 0,
   UnlockHash |-> EmptyHash, RevisionNumber |-> 0]

\* ------------------------------------------------------- currency (types)
\* Currency.Add: the sum, or a panic when it leaves the range.
AddOverflows(a, b) == a + b > MaxCurrency
\* Currency.SubWithUnderflow: (difference, underflow flag).
SubUnderflows(a, b) == a < b
SubValue(a, b) == IF a < b THEN 0 ELSE a - b

\* ----------------------------------------------------------- field access
\* FileContract.ValidRenterPayout() etc. index their slice: out of range
\* panics, which the callers below test with HasOutput first.
HasOutput(outs, i) == i >= 1 /\ i <= Len(outs)
ValidRenterPayout(fc) == fc.ValidProofOutputs[1].Value
ValidHostPayout(fc) == fc.ValidProofOutputs[2].Value
MissedRenterPayout(fc) == fc.MissedProofOutputs[1].Value
MissedHostPayout(fc) == fc.MissedProofOutputs[2].Value
MissedVoidValue(fc) == fc.MissedProofOutputs[3].Value

RECURSIVE SumValues(_)
SumValues(outs) ==
  IF outs = <<>> THEN 0 ELSE outs[1].Value + SumValues(Tail(outs))

Values(outs) == [i \in 1..Len(outs) |-> outs[i].Value]
Addresses(outs) == [i \in 1..Len(outs) |-> outs[i].Address]

\* -------------------------------------------------------- result records
Ok == [status |-> "ok", msg |-> "", transfer |-> 0, burn |-> 0]
Err(m) == [status |-> "error", msg |-> m, transfer |-> 0, burn |-> 0]
Panic(m) == [status |-> "panic", msg |-> m, transfer |-> 0, burn |-> 0]
OkWith(t, b) == [status |-> "ok", msg |-> "", transfer |-> t, burn |-> b]

\* ------------------------------------------------- validateStdRevision
\* The loops over revision.ValidProofOutputs / MissedProofOutputs: output i
\* of the revision is compared with current's output i (an index past the
\* end of current's slice panics), then added to the running sum with
\* Currency.Add (which panics on overflow).
RECURSIVE ScanOutputs(_, _, _, _, _)
ScanOutputs(cur, rev, i, acc, what) ==
  IF i > Len(rev) THEN [status |-> "ok", msg |-> "", sum |-> acc]
  ELSE IF ~HasOutput(cur, i)
    THEN [status |-> "panic", msg |-> "index out of range", sum |-> 0]
  ELSE IF rev[i].Address # cur[i].Address
    THEN [status |-> "error",
          msg |-> what \o " proof output address should not change", sum |-> 0]
  ELSE IF AddOverflows(acc, rev[i].Value)
    THEN [status |-> "panic", msg |-> "overflow", sum |-> 0]
  ELSE ScanOutputs(cur, rev, i + 1, acc + rev[i].Value, what)

\* Mutation of RevisionNumberStale: a proposal with current's own
\* number is let through.
RevisionNumberStaleStrict(current, revision) ==
  revision.RevisionNumber < current.RevisionNumber

\* case revision.RevisionNumber <= current.RevisionNumber
RevisionNumberStale(current, revision) ==
  revision.RevisionNumber <= current.RevisionNumber

\* The switch of validateStdRevision, entered with the three sums.
StdSwitch(current, revision, oldPayout, validPayout, missedPayout) ==
  IF validPayout # oldPayout
    THEN Err("valid proof output sum must not change")
  ELSE IF missedPayout # oldPayout
    THEN Err("missed proof output sum must not change")
  ELSE IF revision.UnlockHash # current.UnlockHash
    THEN Err("unlock hash must not change")
  ELSE IF UnlockHash(revision.UnlockConditions) # UnlockHash(current.UnlockConditions)
    THEN Err("unlock conditions must not change")
  ELSE IF RevisionNumberStale(current, revision)
    THEN Err("revision number must increase")
  ELSE IF revision.WindowStart # current.WindowStart
    THEN Err("window start must not change")
  ELSE IF revision.WindowEnd # current.WindowEnd
    THEN Err("window end must not change")
  ELSE IF Len(revision.ValidProofOutputs) # Len(current.ValidProofOutputs)
    THEN Err("valid proof outputs must not change")
  ELSE IF Len(revision.MissedProofOutputs) # Len(current.MissedProofOutputs)
    THEN Err("missed proof outputs must not change")
  ELSE IF ~HasOutput(revision.ValidProofOutputs, 1)
    THEN Panic("index out of range")
  ELSE IF ValidRenterPayout(revision) > ValidRenterPayout(current)
    THEN Err("renter valid proof output must not increase")
  ELSE IF ~HasOutput(revision.MissedProofOutputs, 1)
    THEN Panic("index out of range")
  ELSE IF MissedRenterPayout(revision) > MissedRenterPayout(current)
    THEN Err("renter missed proof output must not increase")
  ELSE IF ValidRenterPayout(revision) # MissedRenterPayout(revision)
    THEN Err("renter payouts must be equal")
  ELSE Ok

validateStdRevision(current, revision) ==
  IF SumValues(current.ValidProofOutputs) > MaxCurrency THEN Panic("overflow")
  ELSE
    LET oldPayout == SumValues(current.ValidProofOutputs)
        valid == ScanOutputs(current.ValidProofOutputs,
                             revision.ValidProofOutputs, 1, 0, "valid")
    IN IF valid.status # "ok" THEN [Ok EXCEPT !.status = valid.status, !.msg = valid.msg]
       ELSE
         LET missed == ScanOutputs(current.MissedProofOutputs,
                                   revision.MissedProofOutputs, 1, 0, "missed")
         IN IF missed.status # "ok"
              THEN [Ok EXCEPT !.status = missed.status, !.msg = missed.msg]
              ELSE StdSwitch(current, revision, oldPayout, valid.sum, missed.sum)

\* ----------------------------------------------------- ValidateRevision
\* Mutation of InsufficientTransfer: any transfer is taken as enough.
InsufficientTransferNever(toHost, payment) == FALSE

\* toHost.Cmp(payment) < 0
InsufficientTransfer(toHost, payment) == toHost < payment

\* The part of ValidateRevision after validateStdRevision has returned nil.
RevisionTransfer(current, revision, payment, collateral) ==
  IF ValidRenterPayout(current) < payment
    THEN Err("renter valid proof output must be greater than the payment amount")
  ELSE IF MissedRenterPayout(current) < payment
    THEN Err("renter missed proof output must be greater than the payment amount")
  ELSE IF ~HasOutput(current.MissedProofOutputs, 2)
    THEN Panic("index out of range")
  ELSE IF MissedHostPayout(current) < collateral
    THEN Err("host missed proof output must be greater than the collateral amount")
  ELSE IF SubUnderflows(ValidRenterPayout(current), ValidRenterPayout(revision))
    THEN Err("renter valid payout must decrease")
  ELSE IF ~HasOutput(revision.ValidProofOutputs, 2)
    THEN Panic("index out of range")
  ELSE IF SubUnderflows(ValidHostPayout(revision), ValidHostPayout(current))
    THEN Err("host valid payout must increase")
  ELSE IF SubUnderflows(MissedHostPayout(current), MissedHostPayout(revision))
    THEN Err("host missed payout must decrease")
  ELSE
    LET fromRenter == SubValue(ValidRenterPayout(current), ValidRenterPayout(revision))
        toHost == SubValue(ValidHostPayout(revision), ValidHostPayout(current))
        hostBurn == SubValue(MissedHostPayout(current), MissedHostPayout(revision))
    IN IF fromRenter # toHost THEN Err("unexpected transfer to host")
       ELSE IF InsufficientTransfer(toHost, payment)
         THEN Err("insufficient host transfer")
       ELSE IF hostBurn > collateral THEN Err("excessive collateral transfer")
       ELSE OkWith(toHost, hostBurn)

ValidateRevision(current, revision, payment, collateral) ==
  LET std == validateStdRevision(current, revision)
  IN IF std.status # "ok" THEN std
     ELSE RevisionTransfer(current, revision, payment, collateral)

\* ---------------------------------------------- ValidateProgramRevision
\* Mutation of ExcessiveBurn: the comparison turned around.
ExcessiveBurnReversed(hostBurn, expectedBurn) == hostBurn < expectedBurn

\* if hostBurn.Cmp(expectedBurn) > 0
ExcessiveBurn(hostBurn, expectedBurn) == hostBurn > expectedBurn

\* The part of ValidateProgramRevision after validateStdRevision.
ProgramBurn(current, revision, storage, collateral) ==
  IF ~HasOutput(current.MissedProofOutputs, 2)
    THEN Panic("index out of range")
  ELSE IF SubUnderflows(MissedHostPayout(current), MissedHostPayout(revision))
    THEN Err("host missed payout must decrease")
  ELSE IF AddOverflows(storage, collateral) THEN Panic("overflow")
  ELSE
    LET hostBurn == SubValue(MissedHostPayout(current), MissedHostPayout(revision))
        expectedBurn == storage + collateral
    IN IF ExcessiveBurn(hostBurn, expectedBurn)
         THEN Err("host burned more than expected")
       ELSE IF ~HasOutput(revision.MissedProofOutputs, 3)
         THEN Panic("index out of range")
       ELSE IF SubUnderflows(MissedVoidValue(revision), MissedVoidValue(current))
         THEN Err("void output value must increase")
       ELSE IF SubValue(MissedVoidValue(revision), MissedVoidValue(current)) # hostBurn
         THEN Err("host burn value should match void burn value")
       ELSE IF ValidRenterPayout(current) # ValidRenterPayout(revision)
         THEN Err("renter valid proof output must not change")
       ELSE IF ~HasOutput(current.ValidProofOutputs, 2)
         THEN Panic("index out of range")
       ELSE IF ValidHostPayout(current) # ValidHostPayout(revision)
         THEN Err("host valid proof output must not change")
       ELSE IF MissedRenterPayout(current) # MissedRenterPayout(revision)
         THEN Err("renter missed proof output must not change")
       ELSE OkWith(0, hostBurn)

ValidateProgramRevision(current, revision, storage, collateral) ==
  LET std == validateStdRevision(current, revision)
  IN IF std.status # "ok" THEN std
     ELSE ProgramBurn(current, revision, storage, collateral)

\* ---------------------------------------------- ValidatePaymentRevision
\* Mutation of NotIncreasedBy: only an increase below the payment fails.
IncreasedByLess(newValue, oldValue, payment) == newValue < oldValue + payment

\* revision's host output .Cmp(current's host output .Add(payment)) != 0
NotIncreasedBy(newValue, oldValue, payment) == newValue # oldValue + payment

\* The switch of ValidatePaymentRevision: Currency.Sub and Currency.Add
\* panic where the difference or the sum leaves the range.
PaymentSwitch(current, revision, payment) ==
  IF SubUnderflows(ValidRenterPayout(current), payment) THEN Panic("underflow")
  ELSE IF ValidRenterPayout(revision) # ValidRenterPayout(current) - payment
    THEN Err("renter valid proof output is not reduced by the payment amount")
  ELSE IF SubUnderflows(MissedRenterPayout(current), payment) THEN Panic("underflow")
  ELSE IF MissedRenterPayout(revision) # MissedRenterPayout(current) - payment
    THEN Err("renter missed proof output is not reduced by the payment amount")
  ELSE IF ~HasOutput(revision.ValidProofOutputs, 2)
    THEN Panic("index out of range")
  ELSE IF AddOverflows(ValidHostPayout(current), payment) THEN Panic("overflow")
  ELSE IF NotIncreasedBy(ValidHostPayout(revision), ValidHostPayout(current), payment)
    THEN Err("host valid proof output is not increased by the payment amount")
  ELSE IF ~HasOutput(revision.MissedProofOutputs, 2)
    THEN Panic("index out of range")
  ELSE IF AddOverflows(MissedHostPayout(current), payment) THEN Panic("overflow")
  ELSE IF NotIncreasedBy(MissedHostPayout(revision), MissedHostPayout(current), payment)
    THEN Err("host missed proof output is not increased by the payment amount")
  ELSE Ok

ValidatePaymentRevision(current, revision, payment) ==
  LET std == validateStdRevision(current, revision)
  IN IF std.status # "ok" THEN std
     ELSE PaymentSwitch(current, revision, payment)

\* --------------------------------------------- ValidateClearingRevision
\* The loop over final.ValidProofOutputs: output i of final is compared with
\* current's valid output i and with final's missed output i.
RECURSIVE ClearingOutputs(_, _, _)
ClearingOutputs(current, final, i) ==
  IF i > Len(final.ValidProofOutputs) THEN Ok
  ELSE IF ~HasOutput(current.ValidProofOutputs, i)
    THEN Panic("index out of range")
  ELSE
    LET cur == current.ValidProofOutputs[i]
        valid == final.ValidProofOutputs[i]
        missed == final.MissedProofOutputs[i]
    IN IF valid.Value # cur.Value
         THEN Err("valid proof output value must not change")
       ELSE IF valid.Address # cur.Address
         THEN Err("valid proof output address must not change")
       ELSE IF valid.Value # missed.Value
         THEN Err("missed proof output must equal valid proof output")
       ELSE IF valid.Address # missed.Address
         THEN Err("missed proof output address must equal valid proof output")
       ELSE ClearingOutputs(current, final, i + 1)

ValidateClearingRevision(current, final) ==
  IF final.Filesize # 0 THEN Err("filesize must be 0")
  ELSE IF final.FileMerkleRoot # EmptyHash THEN Err("file merkle root must be empty")
  ELSE IF current.WindowStart # final.WindowStart
    THEN Err("window start must not change")
  ELSE IF current.WindowEnd # final.WindowEnd
    THEN Err("window end must not change")
  ELSE IF Len(final.ValidProofOutputs) # Len(final.MissedProofOutputs)
    THEN Err("wrong number of proof outputs")
  ELSE IF final.RevisionNumber # MaxRevisionNumber
    THEN Err("revision number must be max value")
  ELSE IF final.UnlockHash # current.UnlockHash
    THEN Err("unlock hash must not change")
  ELSE IF UnlockHash(final.UnlockConditions) # UnlockHash(current.UnlockConditions)
    THEN Err("unlock conditions must not change")
  ELSE ClearingOutputs(current, final, 1)

\* ------------------------------------------- ValidateContractFormation
\* uint64 addition: currentHeight+settings.WindowSize wraps at the width.
AddUint64(a, b) == (a + b) % (MaxHeight + 1)

\* What ValidateContractFormation returns: the collateral and the error.
FormationOk(c) == [status |-> "ok", msg |-> "", collateral |-> c]
FormationErr(m) == [status |-> "error", msg |-> m, collateral |-> 0]

\* Mutation of ExcessiveCollateral: a payout equal to the maximum is excessive.
ExcessiveCollateralAtMax(payout, maxCollateral) == payout >= maxCollateral

\* fc.ValidHostPayout().Cmp(settings.MaxCollateral) > 0
ExcessiveCollateral(payout, maxCollateral) == payout > maxCollateral

ValidateContractFormation(fc, hostKey, renterKey, currentHeight, settings) ==
  IF fc.Filesize # 0 THEN FormationErr("initial filesize should be 0")
  ELSE IF fc.RevisionNumber # 0
    THEN FormationErr("initial revision number should be 0")
  ELSE IF fc.FileMerkleRoot # EmptyHash
    THEN FormationErr("initial Merkle root should be empty")
  ELSE IF fc.WindowStart < AddUint64(currentHeight, settings.WindowSize)
    THEN FormationErr("contract ends too soon to safely submit the contract transaction")
  ELSE IF fc.WindowStart > AddUint64(currentHeight, settings.MaxDuration)
    THEN FormationErr("contract duration is too long")
  ELSE IF fc.WindowEnd < AddUint64(fc.WindowStart, settings.WindowSize)
    THEN FormationErr("proof window is too small")
  ELSE IF Len(fc.ValidProofOutputs) # 2
    THEN FormationErr("wrong number of valid proof outputs")
  ELSE IF Len(fc.MissedProofOutputs) # 3
    THEN FormationErr("wrong number of missed proof outputs")
  ELSE IF fc.ValidProofOutputs[2].Address # settings.Address
    THEN FormationErr("wrong address for host valid output")
  ELSE IF fc.MissedProofOutputs[2].Address # settings.Address
    THEN FormationErr("wrong address for host missed output")
  ELSE IF fc.MissedProofOutputs[3].Address # VoidAddress
    THEN FormationErr("wrong address for void output")
  ELSE IF fc.MissedProofOutputs[3].Value # 0
    THEN FormationErr("void output should have value 0")
  ELSE IF ValidHostPayout(fc) < settings.ContractPrice
    THEN FormationErr("host valid payout is too small")
  ELSE IF ValidHostPayout(fc) # MissedHostPayout(fc)
    THEN FormationErr("host valid and missed outputs must be equal")
  ELSE IF ExcessiveCollateral(ValidHostPayout(fc), settings.MaxCollateral)
    THEN FormationErr("excessive initial collateral")
  ELSE IF fc.UnlockHash # UnlockHash(contractUnlockConditions(hostKey, renterKey))
    THEN FormationErr("incorrect unlock hash")
  ELSE FormationOk(SubValue(ValidHostPayout(fc), settings.ContractPrice))

\* --------------------------------------------- ValidateContractRenewal
\* What ValidateContractRenewal returns: three currencies and the error.
RenewalOk(revenue, risked, locked) ==
  [status |-> "ok", msg |-> "", storageRevenue |-> revenue,
   riskedCollateral |-> risked, lockedCollateral |-> locked]
RenewalErr(m) ==
  [status |-> "error", msg |-> m, storageRevenue |-> 0,
   riskedCollateral |-> 0, lockedCollateral |-> 0]
RenewalPanic(m) ==
  [status |-> "panic", msg |-> m, storageRevenue |-> 0,
   riskedCollateral |-> 0, lockedCollateral |-> 0]

\* Mutation of ExcessiveHostBurn: any burn is let through.
ExcessiveHostBurnNever(hostBurn, expectedBurn) == FALSE

\* hostBurn.Cmp(expectedBurn) > 0
ExcessiveHostBurn(hostBurn, expectedBurn) == hostBurn > expectedBurn

\* The part of ValidateContractRenewal after its switch.
RenewalCollateral(renewal, baseHostRevenue, baseRiskedCollateral, settings) ==
  IF AddOverflows(baseHostRevenue, baseRiskedCollateral)
    THEN RenewalPanic("overflow")
  ELSE
    LET expectedBurn == baseHostRevenue + baseRiskedCollateral
    IN IF SubUnderflows(ValidHostPayout(renewal), MissedHostPayout(renewal))
         THEN RenewalErr("host valid payout must be greater than host missed payout")
       ELSE
         LET hostBurn == SubValue(ValidHostPayout(renewal), MissedHostPayout(renewal))
             riskedCollateral ==
               IF SubUnderflows(hostBurn, baseHostRevenue) THEN 0
               ELSE SubValue(hostBurn, baseHostRevenue)
         IN IF ExcessiveHostBurn(hostBurn, expectedBurn)
              THEN RenewalErr("excessive host burn")
            ELSE IF renewal.MissedProofOutputs[3].Value # hostBurn
              THEN RenewalErr("risked collateral must be sent to void output")
            ELSE IF SubUnderflows(ValidHostPayout(renewal), baseHostRevenue)
              THEN RenewalErr("valid host output must be more than base storage cost")
            ELSE IF SubValue(ValidHostPayout(renewal), baseHostRevenue)
                      > settings.MaxCollateral
              THEN RenewalErr("collateral exceeds maximum")
            ELSE RenewalOk(baseHostRevenue, riskedCollateral,
                           SubValue(ValidHostPayout(renewal), baseHostRevenue))

ValidateContractRenewal(existing, renewal, hostKey, renterKey, baseHostRevenue, baseRiskedCollateral, currentHeight, settings) ==
  IF renewal.RevisionNumber # 0 THEN RenewalErr("revision number must be zero")
  ELSE IF renewal.Filesize # existing.Filesize
    THEN RenewalErr("filesize must not change")
  ELSE IF renewal.FileMerkleRoot # existing.FileMerkleRoot
    THEN RenewalErr("file Merkle root must not change")
  ELSE IF renewal.WindowEnd < existing.WindowEnd
    THEN RenewalErr("renewal window must not end before current window")
  ELSE IF renewal.WindowStart < AddUint64(currentHeight, settings.WindowSize)
    THEN RenewalErr("contract ends too soon to safely submit the contract transaction")
  ELSE IF renewal.WindowStart > AddUint64(currentHeight, settings.MaxDuration)
    THEN RenewalErr("contract duration is too long")
  ELSE IF renewal.WindowEnd < AddUint64(renewal.WindowStart, settings.WindowSize)
    THEN RenewalErr("proof window is too small")
  ELSE IF Len(renewal.ValidProofOutputs) # 2
    THEN RenewalErr("wrong number of valid proof outputs")
  ELSE IF Len(renewal.MissedProofOutputs) # 3
    THEN RenewalErr("wrong number of missed proof outputs")
  ELSE IF renewal.ValidProofOutputs[2].Address # settings.Address
    THEN RenewalErr("wrong address for host output")
  ELSE IF renewal.MissedProofOutputs[3].Address # VoidAddress
    THEN RenewalErr("wrong address for void output")
  ELSE RenewalCollateral(renewal, baseHostRevenue, baseRiskedCollateral, settings)

\* ------------------------------------------------------------------ state
VARIABLES
  heap,      \* backing arrays of the proof output slices, by address (1..)
  current,   \* the host's revision; its output fields are heap addresses
  revision,  \* the revision proposed for it; output fields are addresses
  built,     \* what the last constructor call on current returned
  ret,       \* what the last validator call on (current, revision) returned
  source,    \* current as it read before any call (outputs by value)
  fc,        \* the file contract proposed for formation or renewal
  args,      \* keys, base amounts, height and settings of that call
  mmu,       \* storage: goroutine holding Manager.mu (0 when free)
  mu,        \* storage: goroutine holding volume.mu (0 when free)
  stats,     \* storage: volume.stats
  busy,      \* storage: volume.busy
  pc,        \* storage: where each goroutine stands in its call
  call,      \* storage: the method each goroutine is in, and its err
  hist       \* storage: calls begun and completed, errors recorded, and
             \* the accesses to stats and busy made without volume.mu

\* The variables of the contract functions and those of the storage volume.
contractVars == <<heap, current, revision, built, ret, source, fc, args>>
volVars == <<mmu, mu, stats, busy, pc, call, hist>>
vars == <<contractVars, volVars>>

\* -------------------------------------------------------- storage volume
Procs == 1..NumProcs

\* The zero value of VolumeStats (Errors as the serial numbers of the
\* errors recorded, in the order they were appended).
NoStats ==
  [FailedReads |-> 0, FailedWrites |-> 0, SuccessfulReads |-> 0,
   SuccessfulWrites |-> 0, Errors |-> <<>>]
NoHist == [begun |-> 0, reads |-> 0, writes |-> 0, recorded |-> 0,
           unguarded |-> {}]

\* A volume nobody calls: both mutexes free, every goroutine outside a call.
VolumeAtRest(b) ==
  /\ mmu = 0
  /\ mu = 0
  /\ stats = NoStats
  /\ busy = b
  /\ pc = [p \in Procs |-> "idle"]
  /\ call = [p \in Procs |-> [method |-> "none", err |-> FALSE]]
  /\ hist = NoHist

\* The elements a slice header at address a sees (0 is the nil slice).
At(h, a) == IF a = 0 THEN <<>> ELSE h[a]

\* A revision with its slices read out of the heap.
Deref(h, rev) ==
  [rev EXCEPT !.ValidProofOutputs = At(h, @), !.MissedProofOutputs = At(h, @)]

\* ----------------------------------------------------------- constructors
\* Mutation of ReviseOutputs: the new values are never stored.
ReviseOutputsKeepValues(old, values) ==
  [i \in 1..Len(values) |-> [Address |-> old[i].Address, Value |-> old[i].Value]]

\* Mutation of ReviseOutputs: the addresses are not carried over.
ReviseOutputsDropAddresses(old, values) ==
  [i \in 1..Len(values) |-> [Address |-> OtherAddress, Value |-> values[i]]]

\* The loops of Revise that fill a made slice: output i gets the old
\* address and the new value.
ReviseOutputs(old, values) ==
  [i \in 1..Len(values) |-> [Address |-> old[i].Address, Value |-> values[i]]]

\* Mutation of NumberNotGreater: an equal revision number is let through.
NumberNotGreaterStrict(revisionNumber, number) == revisionNumber < number

\* revisionNumber <= revision.RevisionNumber
NumberNotGreater(revisionNumber, number) == revisionNumber <= number

\* Revise: the result holds two arrays made by the call.
Revise(h, rev, revisionNumber, validOutputs, missedOutputs) ==
  LET oldValid == At(h, rev.ValidProofOutputs)
      oldMissed == At(h, rev.MissedProofOutputs)
  IN IF Len(validOutputs) # Len(oldValid) \/ Len(missedOutputs) # Len(oldMissed)
       THEN [rev |-> EmptyRevision, status |-> "error",
             msg |-> "incorrect number of outputs", heap |-> h]
     ELSE IF NumberNotGreater(revisionNumber, rev.RevisionNumber)
       THEN [rev |-> EmptyRevision, status |-> "error",
             msg |-> "revision number must be greater", heap |-> h]
     ELSE
       LET newValid == ReviseOutputs(oldValid, validOutputs)
           newMissed == ReviseOutputs(oldMissed, missedOutputs)
       IN [rev |-> [rev EXCEPT !.RevisionNumber = revisionNumber,
                               !.ValidProofOutputs = Len(h) + 1,
                               !.MissedProofOutputs = Len(h) + 2],
           status |-> "ok", msg |-> "",
           heap |-> h \o <<newValid, newMissed>>]

\* Mutation of Locked: no revision counts as locked.
LockedNever(rev) == FALSE

\* revision.RevisionNumber == math.MaxUint64
Locked(rev) == rev.RevisionNumber = MaxRevisionNumber

\* ClearingRevision: the values are stored through the caller's slice header
\* and the result's missed outputs are that same slice.
ClearingRevision(h, rev, outputValues) ==
  IF Locked(rev)
    THEN [rev |-> EmptyRevision, status |-> "error",
          msg |-> "contract is locked", heap |-> h]
  ELSE IF Len(outputValues) # Len(At(h, rev.ValidProofOutputs))
    THEN [rev |-> EmptyRevision, status |-> "error",
          msg |-> "incorrect number of outputs", heap |-> h]
  ELSE
    [rev |-> [rev EXCEPT !.MissedProofOutputs = rev.ValidProofOutputs,
                         !.RevisionNumber = MaxRevisionNumber,
                         !.Filesize = 0,
                         !.FileMerkleRoot = EmptyHash],
     status |-> "ok", msg |-> "",
     heap |-> IF rev.ValidProofOutputs = 0 THEN h
              ELSE LET old == h[rev.ValidProofOutputs]
                   IN [h EXCEPT ![rev.ValidProofOutputs] =
                         [i \in 1..Len(old) |->
                            [Address |-> old[i].Address, Value |-> outputValues[i]]]]]

\* ----------------------------------------------------------------- inputs
\* Output counts of a contract as formed (ValidateContractFormation).
ValidArity == 2
MissedArity == 3

ValueSeqs(n) == [1..n -> Currency]

\* Outputs with the given values at the addresses of a well-formed contract.
StdOutputs(vals) ==
  [i \in 1..Len(vals) |-> [Address |-> StdAddress(i), Value |-> vals[i]]]

\* Output counts of the current revisions the model starts from: up to the
\* counts of a formed contract, the missed list as long as the valid list
\* (a cleared contract) or one longer (the void output).
CurrentShapes ==
  {<<lv, lm>> \in (0..ValidArity) \X (0..MissedArity) : lm \in {lv, lv + 1}}

\* Revision numbers of the current revisions: fresh, or locked.
CurrentNumbers == {1, MaxRevisionNumber}

CurrentRevision(num) ==
  [ParentID |-> 1,
   UnlockConditions |-> contractUnlockConditions(HostKey, RenterKey),
   Filesize |-> 1, FileMerkleRoot |-> 1,
   WindowStart |-> 1, WindowEnd |-> 2,
   ValidProofOutputs |-> 1, MissedProofOutputs |-> 2,
   UnlockHash |-> UnlockHash(contractUnlockConditions(HostKey, RenterKey)),
   RevisionNumber |-> num]

\* The fields a proposal may get wrong, one at a time.
Tampers ==
  {"none", "unlockHash", "unlockConditions", "windowStart", "windowEnd"}

\* The proposed revision's scalar fields: those of cur with number num,
\* cleared (filesize and Merkle root zeroed) or not, one field tampered.
Proposal(cur, num, cleared, tamper) ==
  [cur EXCEPT
     !.RevisionNumber = num,
     !.Filesize = IF cleared THEN 0 ELSE @,
     !.FileMerkleRoot = IF cleared THEN EmptyHash ELSE @,
     !.UnlockHash = IF tamper = "unlockHash" THEN @ + 1 ELSE @,
     !.UnlockConditions = IF tamper = "unlockConditions"
                            THEN contractUnlockConditions(RenterKey, HostKey)
                            ELSE @,
     !.WindowStart = IF tamper = "windowStart" THEN @ + 1 ELSE @,
     !.WindowEnd = IF tamper = "windowEnd" THEN @ + 1 ELSE @,
     !.ValidProofOutputs = 3,
     !.MissedProofOutputs = 4]

\* Value v of cur's output i where cur has one, else 0.
ValueOr0(outs, i) == IF HasOutput(outs, i) THEN outs[i].Value ELSE 0

NoCall == [op |-> "none", status |-> "", msg |-> "", transfer |-> 0, burn |-> 0,
           payment |-> 0, collateral |-> 0]
NoBuilt == [op |-> "none", status |-> "", msg |-> "", rev |-> EmptyRevision]

\* No contract is being formed while revisions are exchanged.
NoContract ==
  [Filesize |-> 0, FileMerkleRoot |-> EmptyHash, WindowStart |-> 0,
   WindowEnd |-> 0, ValidProofOutputs |-> 0, MissedProofOutputs |-> 0,
   UnlockHash |-> EmptyHash, RevisionNumber |-> 0]
NoArgs ==
  [hostKey |-> 0, renterKey |-> 0, baseHostRevenue |-> 0,
   baseRiskedCollateral |-> 0, currentHeight |-> 0,
   settings |-> [WindowSize |-> 0, MaxDuration |-> 0, Address |-> "",
                 ContractPrice |-> 0, MaxCollateral |-> 0]]

InitWith(cv, cm, cnum, rvOuts, rmOuts, rnum, cleared, tamper) ==
  /\ heap = <<StdOutputs(cv), StdOutputs(cm), rvOuts, rmOuts>>
  /\ current = CurrentRevision(cnum)
  /\ revision = Proposal(CurrentRevision(cnum), rnum, cleared, tamper)
  /\ built = NoBuilt
  /\ ret = NoCall
  /\ source = Deref(heap, current)
  /\ fc = NoContract
  /\ args = NoArgs
  /\ VolumeAtRest(FALSE)

\* Proposals of current's shape and addresses with any values: a successor
\* (the next number), or a clearing proposal where current's valid and
\* missed lists are equally long.
InitValues ==
  \E shape \in CurrentShapes :
  \E cv \in ValueSeqs(shape[1]), cm \in ValueSeqs(shape[2]) :
  \E rv \in ValueSeqs(shape[1]), rm \in ValueSeqs(shape[2]) :
  \E cleared \in {FALSE, shape[1] = shape[2]} :
    InitWith(cv, cm, 1, StdOutputs(rv), StdOutputs(rm),
             IF cleared THEN MaxRevisionNumber ELSE 2, cleared, "none")

\* Proposals that keep current's values (a clearing proposal: current's
\* valid values in both lists) under any pair of revision numbers.
InitNumbers ==
  \E shape \in CurrentShapes :
  \E cv \in ValueSeqs(shape[1]), cm \in ValueSeqs(shape[2]) :
  \E cnum \in CurrentNumbers, rnum \in 0..MaxRevisionNumber :
  \E cleared \in BOOLEAN :
    InitWith(cv, cm, cnum, StdOutputs(cv),
             IF cleared THEN StdOutputs(cv) ELSE StdOutputs(cm),
             rnum, cleared, "none")

\* Proposals with other output counts than current's: current's values
\* where it has them, 0 in the outputs added.
InitShapes ==
  \E shape \in CurrentShapes :
  \E cv \in ValueSeqs(shape[1]), cm \in ValueSeqs(shape[2]) :
  \E lv \in 0..MaxOutputs, lm \in 0..MaxOutputs :
  \E cnum \in CurrentNumbers, cleared \in BOOLEAN :
    /\ <<lv, lm>> # shape
    /\ InitWith(cv, cm, cnum,
                [i \in 1..lv |-> [Address |-> StdAddress(i),
                                  Value |-> ValueOr0(StdOutputs(cv), i)]],
                [i \in 1..lm |-> [Address |-> StdAddress(i),
                                  Value |-> IF cleared
                                              THEN ValueOr0(StdOutputs(cv), i)
                                              ELSE ValueOr0(StdOutputs(cm), i)]],
                IF cleared \/ cnum = MaxRevisionNumber
                  THEN MaxRevisionNumber ELSE cnum + 1,
                cleared, "none")

\* Proposals that keep current's values and change one other thing: a
\* scalar field, or the address of one output.
InitTampered ==
  \E shape \in CurrentShapes :
  \E cv \in ValueSeqs(shape[1]), cm \in ValueSeqs(shape[2]) :
  \E cleared \in BOOLEAN :
    \/ \E tamper \in Tampers \ {"none"} :
         InitWith(cv, cm, 1,
                  StdOutputs(cv),
                  IF cleared THEN StdOutputs(cv) ELSE StdOutputs(cm),
                  IF cleared THEN MaxRevisionNumber ELSE 2, cleared, tamper)
    \/ \E i \in 1..shape[1] :
         InitWith(cv, cm, 1,
                  [StdOutputs(cv) EXCEPT ![i].Address = OtherAddress],
                  IF cleared THEN StdOutputs(cv) ELSE StdOutputs(cm),
                  IF cleared THEN MaxRevisionNumber ELSE 2, cleared, "none")
    \/ \E i \in 1..(IF cleared THEN shape[1] ELSE shape[2]) :
         InitWith(cv, cm, 1,
                  StdOutputs(cv),
                  [(IF cleared THEN StdOutputs(cv) ELSE StdOutputs(cm))
                     EXCEPT ![i].Address = OtherAddress],
                  IF cleared THEN MaxRevisionNumber ELSE 2, cleared, "none")

Init == InitValues \/ InitNumbers \/ InitShapes \/ InitTampered

\* ---------------------------------------------------------------- actions
\* The record of a validator call: what it returned, and its two currency
\* arguments (payment or storage first, collateral second).
Called(op, r, payment, collateral) ==
  [op |-> op, status |-> r.status, msg |-> r.msg, transfer |-> r.transfer,
   burn |-> r.burn, payment |-> payment, collateral |-> collateral]

Idle == ret.op = "none" /\ built.op = "none"

DoValidateRevision ==
  /\ Idle
  /\ \E payment \in Currency, collateral \in Currency :
       ret' = Called("ValidateRevision",
                     ValidateRevision(Deref(heap, current), Deref(heap, revision),
                                      payment, collateral),
                     payment, collateral)
  /\ UNCHANGED <<heap, current, revision, built, source, fc, args, volVars>>

DoValidateProgramRevision ==
  /\ Idle
  /\ \E storage \in Currency, collateral \in Currency :
       ret' = Called("ValidateProgramRevision",
                     ValidateProgramRevision(Deref(heap, current),
                                             Deref(heap, revision),
                                             storage, collateral),
                     storage, collateral)
  /\ UNCHANGED <<heap, current, revision, built, source, fc, args, volVars>>

DoValidatePaymentRevision ==
  /\ Idle
  /\ \E payment \in Currency :
       ret' = Called("ValidatePaymentRevision",
                     ValidatePaymentRevision(Deref(heap, current),
                                             Deref(heap, revision), payment),
                     payment, 0)
  /\ UNCHANGED <<heap, current, revision, built, source, fc, args, volVars>>

DoValidateClearingRevision ==
  /\ Idle
  /\ ret' = Called("ValidateClearingRevision",
                   ValidateClearingRevision(Deref(heap, current),
                                            Deref(heap, revision)),
                   0, 0)
  /\ UNCHANGED <<heap, current, revision, built, source, fc, args, volVars>>

\* The host rebuilds the proposal from its own revision: Revise with the
\* proposal's number and output values.
DoRevise ==
  /\ Idle
  /\ LET r == Revise(heap, current, revision.RevisionNumber,
                     Values(At(heap, revision.ValidProofOutputs)),
                     Values(At(heap, revision.MissedProofOutputs)))
     IN /\ heap' = r.heap
        /\ built' = [op |-> "Revise", status |-> r.status, msg |-> r.msg,
                     rev |-> r.rev]
  /\ UNCHANGED <<current, revision, ret, source, fc, args, volVars>>

\* The host builds the clearing revision with the proposal's valid values.
DoClearingRevision ==
  /\ Idle
  /\ LET r == ClearingRevision(heap, current,
                               Values(At(heap, revision.ValidProofOutputs)))
     IN /\ heap' = r.heap
        /\ built' = [op |-> "ClearingRevision", status |-> r.status,
                     msg |-> r.msg, rev |-> r.rev]
  /\ UNCHANGED <<current, revision, ret, source, fc, args, volVars>>

Next ==
  \/ DoValidateRevision
  \/ DoValidateProgramRevision
  \/ DoValidatePaymentRevision
  \/ DoValidateClearingRevision
  \/ DoRevise
  \/ DoClearingRevision

Spec == Init /\ [][Next]_vars

\* ------------------------------------------------ formation and renewal
\* InitialRevision: revision 1 of the transaction's first contract, under
\* the first contract ID; the output slices are the contract's own.
FormationID == 1
InitialRevision(formationTxn, hostPubKey, renterPubKey) ==
  IF Len(formationTxn.FileContracts) = 0
    THEN [rev |-> EmptyRevision, status |-> "panic", msg |-> "index out of range"]
  ELSE
    LET c == formationTxn.FileContracts[1]
    IN [rev |-> [ParentID |-> FormationID,
                 UnlockConditions |-> contractUnlockConditions(hostPubKey, renterPubKey),
                 Filesize |-> c.Filesize,
                 FileMerkleRoot |-> c.FileMerkleRoot,
                 WindowStart |-> c.WindowStart,
                 WindowEnd |-> c.WindowEnd,
                 ValidProofOutputs |-> c.ValidProofOutputs,
                 MissedProofOutputs |-> c.MissedProofOutputs,
                 UnlockHash |-> c.UnlockHash,
                 RevisionNumber |-> 1],
        status |-> "ok", msg |-> ""]

Heights == 0..MaxHeight
Keys == {RenterKey, HostKey}

\* A contract both validators accept under GoodArgs at height 0, next to
\* the revision it renews: nothing stored, host payout 1, nothing burnt.
GoodContract ==
  [Filesize |-> 0, FileMerkleRoot |-> EmptyHash,
   WindowStart |-> 1, WindowEnd |-> 2,
   ValidProofOutputs |-> 1, MissedProofOutputs |-> 2,
   UnlockHash |-> UnlockHash(contractUnlockConditions(HostKey, RenterKey)),
   RevisionNumber |-> 0]
GoodValid == StdOutputs(<<0, 1>>)
GoodMissed == StdOutputs(<<0, 1, 0>>)
GoodSettings ==
  [WindowSize |-> 1, MaxDuration |-> 1, Address |-> HostAddress,
   ContractPrice |-> 1, MaxCollateral |-> 1]
GoodArgs ==
  [hostKey |-> HostKey, renterKey |-> RenterKey, baseHostRevenue |-> 0,
   baseRiskedCollateral |-> 0, currentHeight |-> 0, settings |-> GoodSettings]
Existing(filesize, root, windowEnd) ==
  [CurrentRevision(2) EXCEPT !.Filesize = filesize, !.FileMerkleRoot = root,
                             !.WindowEnd = windowEnd,
                             !.ValidProofOutputs = 0, !.MissedProofOutputs = 0]

FormInitWith(valid, missed, contract, existing, a) ==
  /\ heap = <<valid, missed>>
  /\ fc = contract
  /\ current = existing
  /\ args = a
  /\ revision = EmptyRevision
  /\ built = NoBuilt
  /\ ret = NoCall
  /\ source = Deref(heap, existing)
  /\ VolumeAtRest(FALSE)

\* Every window against every height, window size and maximum duration.
FormInitWindows ==
  \E ws \in Heights, we \in Heights, h \in Heights :
  \E size \in Heights, dur \in Heights, oldEnd \in {0, MaxHeight} :
    FormInitWith(GoodValid, GoodMissed,
                 [GoodContract EXCEPT !.WindowStart = ws, !.WindowEnd = we],
                 Existing(0, EmptyHash, oldEnd),
                 [GoodArgs EXCEPT !.currentHeight = h,
                                  !.settings.WindowSize = size,
                                  !.settings.MaxDuration = dur])

\* Every output value against every price, maximum and base amount.
FormInitValues ==
  \E v \in ValueSeqs(ValidArity), m \in ValueSeqs(MissedArity) :
  \E price \in Currency, maxc \in Currency :
  \E revenue \in Currency, risked \in Currency :
    FormInitWith(StdOutputs(v), StdOutputs(m), GoodContract,
                 Existing(0, EmptyHash, 0),
                 [GoodArgs EXCEPT !.settings.ContractPrice = price,
                                  !.settings.MaxCollateral = maxc,
                                  !.baseHostRevenue = revenue,
                                  !.baseRiskedCollateral = risked])

\* Every output count, with the scalar fields right or wrong.
FormInitShapes ==
  \E lv \in 0..MaxOutputs, lm \in 0..MaxOutputs :
  \E size \in {0, 1}, num \in {0, 1}, root \in {EmptyHash, 1} :
  \E oldSize \in {0, 1}, oldRoot \in {EmptyHash, 1} :
    FormInitWith(StdOutputs([i \in 1..lv |-> IF i = 2 THEN 1 ELSE 0]),
                 StdOutputs([i \in 1..lm |-> IF i = 2 THEN 1 ELSE 0]),
                 [GoodContract EXCEPT !.Filesize = size, !.RevisionNumber = num,
                                      !.FileMerkleRoot = root],
                 Existing(oldSize, oldRoot, 0), GoodArgs)

\* Every choice of output addresses, host address, keys and unlock hash.
FormInitAddresses ==
  \E vh \in {HostAddress, OtherAddress}, mh \in {HostAddress, OtherAddress} :
  \E void \in {VoidAddress, OtherAddress}, addr \in {HostAddress, OtherAddress} :
  \E hostKey \in Keys, renterKey \in Keys :
  \E hash \in {UnlockHash(contractUnlockConditions(HostKey, RenterKey)),
               UnlockHash(contractUnlockConditions(RenterKey, HostKey)),
               EmptyHash} :
    FormInitWith([GoodValid EXCEPT ![2].Address = vh],
                 [GoodMissed EXCEPT ![2].Address = mh, ![3].Address = void],
                 [GoodContract EXCEPT !.UnlockHash = hash],
                 Existing(0, EmptyHash, 0),
                 [GoodArgs EXCEPT !.hostKey = hostKey, !.renterKey = renterKey,
                                  !.settings.Address = addr])

FormInit ==
  FormInitWindows \/ FormInitValues \/ FormInitShapes \/ FormInitAddresses

DoValidateContractFormation ==
  /\ Idle
  /\ LET r == ValidateContractFormation(Deref(heap, fc), args.hostKey,
                 args.renterKey, args.currentHeight, args.settings)
     IN ret' = [op |-> "ValidateContractFormation", status |-> r.status,
                msg |-> r.msg, collateral |-> r.collateral]
  /\ UNCHANGED <<heap, current, revision, built, source, fc, args, volVars>>

DoValidateContractRenewal ==
  /\ Idle
  /\ LET r == ValidateContractRenewal(Deref(heap, current), Deref(heap, fc),
                 args.hostKey, args.renterKey, args.baseHostRevenue,
                 args.baseRiskedCollateral, args.currentHeight, args.settings)
     IN ret' = [op |-> "ValidateContractRenewal", status |-> r.status,
                msg |-> r.msg, storageRevenue |-> r.storageRevenue,
                riskedCollateral |-> r.riskedCollateral,
                lockedCollateral |-> r.lockedCollateral]
  /\ UNCHANGED <<heap, current, revision, built, source, fc, args, volVars>>

\* The host builds the first revision of the contract, before or after it
\* has validated the formation, with the keys of that call.
DoInitialRevision ==
  /\ built.op = "none"
  /\ ret.op \in {"none", "ValidateContractFormation"}
  /\ LET r == InitialRevision([FileContracts |-> <<fc>>], args.hostKey,
                              args.renterKey)
     IN built' = [op |-> "InitialRevision", status |-> r.status,
                  msg |-> r.msg, rev |-> r.rev]
  /\ UNCHANGED <<heap, current, revision, ret, source, fc, args, volVars>>

FormNext ==
  \/ DoValidateContractFormation
  \/ DoValidateContractRenewal
  \/ DoInitialRevision

FormSpec == FormInit /\ [][FormNext]_vars

\* ------------------------------------------------- storage volume calls
\* The accesses made without volume.mu so far, with the access goroutine p
\* makes to the given field in its current method.
Access(p, field) ==
  IF mu = p THEN hist.unguarded
  ELSE hist.unguarded \cup {<<call[p].method, field>>}

\* Mutation of KeepNewest: the oldest MaxErrors errors are kept.
KeepOldest(errs) == SubSeq(errs, 1, MaxErrors)

\* v.stats.Errors[len(v.stats.Errors)-100:]
KeepNewest(errs) == SubSeq(errs, Len(errs) - MaxErrors + 1, Len(errs))

Return(p) ==
  /\ pc' = [pc EXCEPT ![p] = "idle"]
  /\ call' = [call EXCEPT ![p] = [method |-> "none", err |-> FALSE]]

Begin(p, method, err, at) ==
  /\ pc[p] = "idle"
  /\ hist.begun < MaxCalls
  /\ call' = [call EXCEPT ![p] = [method |-> method, err |-> err]]
  /\ pc' = [pc EXCEPT ![p] = at]
  /\ hist' = [hist EXCEPT !.begun = @ + 1]

\* Manager.volume: m.mu.Lock()
BeginVolume(p) ==
  /\ Begin(p, "Manager.volume", FALSE, "lock")
  /\ UNCHANGED <<contractVars, mmu, mu, stats, busy>>

VolumeLock(p) ==
  /\ call[p].method = "Manager.volume"
  /\ pc[p] = "lock"
  /\ mmu = 0
  /\ mmu' = p
  /\ pc' = [pc EXCEPT ![p] = "lookup"]
  /\ UNCHANGED <<contractVars, mu, stats, busy, call, hist>>

\* Manager.volume: the lookup, the read of vol.busy where the volume is
\* found, and the return through the deferred m.mu.Unlock().
VolumeLookup(p) ==
  /\ call[p].method = "Manager.volume"
  /\ pc[p] = "lookup"
  /\ \E ok \in BOOLEAN :
       hist' = [hist EXCEPT !.unguarded =
                  IF ok THEN Access(p, "busy") ELSE @]
  /\ mmu' = 0
  /\ Return(p)
  /\ UNCHANGED <<contractVars, mu, stats, busy>>

\* ReadSector: v.data.ReadAt has returned err; the goroutine is at v.mu.Lock().
BeginReadSector(p) ==
  /\ \E err \in BOOLEAN : Begin(p, "ReadSector", err, "lock")
  /\ UNCHANGED <<contractVars, mmu, mu, stats, busy>>

\* WriteSector: v.data.WriteAt has returned err.
BeginWriteSector(p) ==
  /\ \E err \in BOOLEAN : Begin(p, "WriteSector", err, "lock")
  /\ UNCHANGED <<contractVars, mmu, mu, stats, busy>>

\* Sync: v.data.Sync() has returned err; without an error Sync returns.
BeginSync(p) ==
  /\ \E err \in BOOLEAN :
       Begin(p, "Sync", err, IF err THEN "lock" ELSE "idle")
  /\ UNCHANGED <<contractVars, mmu, mu, stats, busy>>

\* v.mu.Lock() of ReadSector, WriteSector and Sync.
LockVolume(p) ==
  /\ call[p].method \in {"ReadSector", "WriteSector", "Sync"}
  /\ pc[p] = "lock"
  /\ mu = 0
  /\ mu' = p
  /\ pc' = [pc EXCEPT ![p] = IF call[p].method = "Sync" THEN "append" ELSE "count"]
  /\ UNCHANGED <<contractVars, mmu, stats, busy, call, hist>>

\* The counter ReadSector or WriteSector increments.
Counter(method, err) ==
  CASE method = "ReadSector" /\ err -> "FailedReads"
    [] method = "ReadSector" /\ ~err -> "SuccessfulReads"
    [] method = "WriteSector" /\ err -> "FailedWrites"
    [] method = "WriteSector" /\ ~err -> "SuccessfulWrites"

\* v.stats.FailedReads++ and its like.
Count(p) ==
  /\ pc[p] = "count"
  /\ stats' = [stats EXCEPT ![Counter(call[p].method, call[p].err)] = @ + 1]
  /\ hist' = [hist EXCEPT !.unguarded = Access(p, "stats")]
  /\ pc' = [pc EXCEPT ![p] = IF call[p].err THEN "append" ELSE "unlock"]
  /\ UNCHANGED <<contractVars, mmu, mu, busy, call>>

\* v.stats.Errors = append(v.stats.Errors, ...)
AppendError(p) ==
  /\ pc[p] = "append"
  /\ stats' = [stats EXCEPT !.Errors = Append(@, hist.recorded + 1)]
  /\ hist' = [hist EXCEPT !.recorded = @ + 1,
                          !.unguarded = Access(p, "stats")]
  /\ pc' = [pc EXCEPT ![p] = "truncate"]
  /\ UNCHANGED <<contractVars, mmu, mu, busy, call>>

\* if len(v.stats.Errors) > 100 { ... }
Truncate(p) ==
  /\ pc[p] = "truncate"
  /\ stats' = [stats EXCEPT !.Errors =
                 IF Len(@) > MaxErrors THEN KeepNewest(@) ELSE @]
  /\ hist' = [hist EXCEPT !.unguarded = Access(p, "stats")]
  /\ pc' = [pc EXCEPT ![p] = "unlock"]
  /\ UNCHANGED <<contractVars, mmu, mu, busy, call>>

\* v.mu.Unlock() and the return that follows it.
Unlock(p) ==
  /\ pc[p] = "unlock"
  /\ mu' = 0
  /\ hist' = [hist EXCEPT
       !.reads = IF call[p].method = "ReadSector" THEN @ + 1 ELSE @,
       !.writes = IF call[p].method = "WriteSector" THEN @ + 1 ELSE @]
  /\ Return(p)
  /\ UNCHANGED <<contractVars, mmu, stats, busy>>

VolInit ==
  /\ heap = <<>>
  /\ current = EmptyRevision
  /\ revision = EmptyRevision
  /\ built = NoBuilt
  /\ ret = NoCall
  /\ source = Deref(heap, current)
  /\ fc = NoContract
  /\ args = NoArgs
  /\ \E b \in BOOLEAN : VolumeAtRest(b)

VolNext ==
  \E p \in Procs :
    \/ BeginVolume(p)
    \/ VolumeLock(p)
    \/ VolumeLookup(p)
    \/ BeginReadSector(p)
    \/ BeginWriteSector(p)
    \/ BeginSync(p)
    \/ LockVolume(p)
    \/ Count(p)
    \/ AppendError(p)
    \/ Truncate(p)
    \/ Unlock(p)

VolSpec == VolInit /\ [][VolNext]_vars

\* ================================================================= claims
\* The two revisions of a validator call, outputs by value.
C == Deref(heap, current)
R == Deref(heap, revision)

Accepted(op) == ret.op = op /\ ret.status = "ok"
AcceptedStd ==
  \/ Accepted("ValidateRevision")
  \/ Accepted("ValidateProgramRevision")
  \/ Accepted("ValidatePaymentRevision")

\* r has the output counts of a formed contract.
Formed(r) ==
  /\ Len(r.ValidProofOutputs) = ValidArity
  /\ Len(r.MissedProofOutputs) = MissedArity

\* Invariants (2)-(8) of the data model between C and R.
StructuralInvariants ==
  /\ Len(R.ValidProofOutputs) = Len(C.ValidProofOutputs)
  /\ Len(R.MissedProofOutputs) = Len(C.MissedProofOutputs)
  /\ Addresses(R.ValidProofOutputs) = Addresses(C.ValidProofOutputs)
  /\ Addresses(R.MissedProofOutputs) = Addresses(C.MissedProofOutputs)
  /\ SumValues(R.ValidProofOutputs) = SumValues(C.ValidProofOutputs)
  /\ SumValues(R.MissedProofOutputs) = SumValues(C.ValidProofOutputs)
  /\ R.UnlockHash = C.UnlockHash
  /\ UnlockHash(R.UnlockConditions) = UnlockHash(C.UnlockConditions)
  /\ R.WindowStart = C.WindowStart
  /\ R.WindowEnd = C.WindowEnd
  /\ R.RevisionNumber > C.RevisionNumber
  /\ Len(R.ValidProofOutputs) >= 1
  /\ Len(R.MissedProofOutputs) >= 1
  /\ ValidRenterPayout(R) <= ValidRenterPayout(C)
  /\ MissedRenterPayout(R) <= MissedRenterPayout(C)
  /\ ValidRenterPayout(R) = MissedRenterPayout(R)

IsTransferOf(p) ==
  /\ ValidHostPayout(R) - ValidHostPayout(C) = p
  /\ ValidRenterPayout(C) - ValidRenterPayout(R) = p
  /\ MissedHostPayout(R) - MissedHostPayout(C) = p
  /\ MissedRenterPayout(C) - MissedRenterPayout(R) = p

\* Every output past the renter's and the host's has the value it had.
OtherValuesUnchanged ==
  /\ \A i \in 3..Len(R.ValidProofOutputs) :
       R.ValidProofOutputs[i].Value = C.ValidProofOutputs[i].Value
  /\ \A i \in 3..Len(R.MissedProofOutputs) :
       R.MissedProofOutputs[i].Value = C.MissedProofOutputs[i].Value

C3_ProgramBurnsIntoVoid ==
  Accepted("ValidateProgramRevision") =>
    /\ ValidRenterPayout(R) = ValidRenterPayout(C)
    /\ ValidHostPayout(R) = ValidHostPayout(C)
    /\ MissedRenterPayout(R) = MissedRenterPayout(C)
    /\ ret.burn = MissedHostPayout(C) - MissedHostPayout(R)
    /\ ret.burn = MissedVoidValue(R) - MissedVoidValue(C)
    /\ ret.burn <= ret.payment + ret.collateral

\* A program revision accepted with a burn of 1.
C3_Witness ==
  /\ Accepted("ValidateProgramRevision")
  /\ ret.burn = 1
  /\ MissedVoidValue(R) = MissedVoidValue(C) + 1

\* C4 as stated: whenever ValidateClearingRevision(current, final) accepts,
\* final is numbered MaxRevisionNumber with filesize 0 and an empty Merkle
\* root, keeps current's window and unlock hashes, pays out exactly
\* current's valid outputs (the same outputs, none dropped, none added) and
\* has missed outputs equal to its valid outputs.  (Stated for a current
\* revision with the output counts of a formed contract.)
C4_ClearingPaysCurrentValid ==
  Accepted("ValidateClearingRevision") /\ Formed(C) =>
    /\ R.RevisionNumber = MaxRevisionNumber
    /\ R.Filesize = 0
    /\ R.FileMerkleRoot = EmptyHash
    /\ R.WindowStart = C.WindowStart
    /\ R.WindowEnd = C.WindowEnd
    /\ R.UnlockHash = C.UnlockHash
    /\ UnlockHash(R.UnlockConditions) = UnlockHash(C.UnlockConditions)
    /\ R.ValidProofOutputs = C.ValidProofOutputs
    /\ R.MissedProofOutputs = R.ValidProofOutputs

Validators ==
  {"ValidateRevision", "ValidateProgramRevision", "ValidatePaymentRevision",
   "ValidateClearingRevision"}

\* C5 as stated: no validator call ends in a panic raised by currency
\* arithmetic; an overflowing sum or an underflowing difference comes back
\* as an error value.  (Stated for pairs of revisions that both have the
\* output counts of a formed contract.)
C5_ArithmeticNeverPanics ==
  ret.op \in Validators /\ Formed(C) /\ Formed(R) =>
    ~(ret.status = "panic" /\ ret.msg \in {"overflow", "underflow"})

\* Every sum the standard check forms stays inside the currency range.
SumsInRange ==
  /\ SumValues(C.ValidProofOutputs) <= MaxCurrency
  /\ SumValues(R.ValidProofOutputs) <= MaxCurrency
  /\ SumValues(R.MissedProofOutputs) <= MaxCurrency

ArityDiffers ==
  \/ Len(R.ValidProofOutputs) # Len(C.ValidProofOutputs)
  \/ Len(R.MissedProofOutputs) # Len(C.MissedProofOutputs)

\* C6 as stated: on every pair, whatever the output counts, each of the four
\* pair validators returns an error or success and never aborts, and a
\* revision whose valid or missed output count differs from current's is
\* rejected with an error.  (Stated for a current revision with the output
\* counts of a formed contract and where no sum leaves the currency range,
\* so that only the proposal's output counts are at issue; the rejection is
\* asked of the three validators built on validateStdRevision, a clearing
\* revision having by construction one missed output fewer.)
C6_TotalOnArity ==
  ret.op \in Validators /\ Formed(C) /\ SumsInRange /\ ArityDiffers =>
    /\ ret.status # "panic"
    /\ (ret.op # "ValidateClearingRevision" => ret.status = "error")

\* C7 as stated: a current revision numbered MaxRevisionNumber is terminal:
\* no validator accepts any successor of it, Revise and ClearingRevision on
\* it fail, and every accepted successor has a greater revision number.
\* (Stated for current revisions with two valid outputs.)
C7_LockedIsTerminal ==
  /\ (ret.op \in Validators /\ ret.status = "ok"
         /\ Len(C.ValidProofOutputs) = ValidArity
        => /\ C.RevisionNumber # MaxRevisionNumber
           /\ R.RevisionNumber > C.RevisionNumber)
  /\ (built.op # "none" /\ source.RevisionNumber = MaxRevisionNumber
        => built.status = "error")

\* C8 as stated: after Revise or ClearingRevision returns, with or without
\* an error, the caller's revision reads as before the call, each output
\* value and address included (so the returned revision cannot hold a slice
\* of the caller's that the call wrote to).  (Stated for a caller's revision
\* with the output counts of a formed contract.)
C8_ConstructorsLeaveSource ==
  built.op # "none" /\ Formed(source) => C = source

\* The revision the last constructor call returned, outputs by value, and
\* the arguments DoRevise passed.
B == Deref(heap, built.rev)
newNumber == revision.RevisionNumber
newValid == Values(R.ValidProofOutputs)
newMissed == Values(R.MissedProofOutputs)
SumSeq(vals) == SumValues([i \in 1..Len(vals) |-> [Value |-> vals[i]]])

\* Revise was called with a greater number and value lists of the right
\* lengths whose sums are the sum of r's valid output values.
RevisedKeepingSums ==
  /\ built.op = "Revise"
  /\ newNumber > source.RevisionNumber
  /\ Len(newValid) = Len(source.ValidProofOutputs)
  /\ Len(newMissed) = Len(source.MissedProofOutputs)
  /\ SumSeq(newValid) = SumValues(source.ValidProofOutputs)
  /\ SumSeq(newMissed) = SumValues(source.ValidProofOutputs)

\* C9 as stated: for n > r.RevisionNumber and value lists v, m of the right
\* lengths whose sums are the sum of r's valid values, Revise(r, n, v, m)
\* gives a revision on which validateStdRevision against r returns no error.
\* (Stated for r with the output counts of a formed contract.)
C9_RevisedPassesStdCheck ==
  RevisedKeepingSums /\ Formed(source) =>
    /\ built.status = "ok"
    /\ validateStdRevision(C, B).status # "error"

\* What the renter checks of the standard check ask of v and m besides.
RenterNotRaised ==
  /\ Len(newValid) >= 1
  /\ Len(newMissed) >= 1
  /\ newValid[1] <= ValidRenterPayout(source)
  /\ newMissed[1] <= MissedRenterPayout(source)
  /\ newValid[1] = newMissed[1]

\* C9 amended: for n > r.RevisionNumber and non-empty value lists v, m of
\* the right lengths whose sums are the sum of r's valid values, with
\* v[0] = m[0], v[0] at most r's valid renter payout and m[0] at most r's
\* missed renter payout, Revise(r, n, v, m) succeeds and validateStdRevision
\* on the result against r returns no error: it accepts whenever the sum of
\* r's valid values is inside the currency range, and aborts in Currency.Add
\* otherwise.
C9_RevisedPassesStdCheckForRenter ==
  RevisedKeepingSums /\ RenterNotRaised =>
    /\ built.status = "ok"
    /\ validateStdRevision(C, B) =
         IF SumValues(source.ValidProofOutputs) <= MaxCurrency
         THEN Ok ELSE Panic("overflow")

\* Revise moved 1 from the renter to the host and the result passed.
C9_Witness ==
  /\ RevisedKeepingSums /\ RenterNotRaised
  /\ built.status = "ok"
  /\ newValid[1] < ValidRenterPayout(source)
  /\ Len(newValid) = ValidArity /\ Len(newMissed) = MissedArity
  /\ ValidHostPayout(B) = ValidHostPayout(source) + 1
  /\ validateStdRevision(C, B).status = "ok"

\* Revise was called with the next number and r's own values.
RevisedUnchanged ==
  /\ built.op = "Revise"
  /\ newNumber = source.RevisionNumber + 1
  /\ newValid = Values(source.ValidProofOutputs)
  /\ newMissed = Values(source.MissedProofOutputs)

\* C10 as stated: for every r below MaxRevisionNumber, Revise(r,
\* r.RevisionNumber + 1, r's valid values, r's missed values) succeeds with
\* every payout equal to r's, and ValidateRevision(r, result, 0, 0) accepts
\* it with transfer 0 and burn 0.  (Stated for r with the output counts of
\* a formed contract and a valid sum inside the currency range.)
C10_ReviseUnchangedIsAccepted ==
  RevisedUnchanged /\ Formed(source)
    /\ SumValues(source.ValidProofOutputs) <= MaxCurrency =>
    /\ built.status = "ok"
    /\ Values(B.ValidProofOutputs) = Values(source.ValidProofOutputs)
    /\ Values(B.MissedProofOutputs) = Values(source.MissedProofOutputs)
    /\ ValidateRevision(C, B, 0, 0) = OkWith(0, 0)

\* r is a revision the standard check can follow with itself: at least a
\* renter and a host output in each list, missed values summing to the
\* valid values' sum, renter payouts equal.
SelfConsistent(r) ==
  /\ Len(r.ValidProofOutputs) >= 2
  /\ Len(r.MissedProofOutputs) >= 2
  /\ SumValues(r.MissedProofOutputs) = SumValues(r.ValidProofOutputs)
  /\ ValidRenterPayout(r) = MissedRenterPayout(r)

\* C10 amended: for every r below MaxRevisionNumber, Revise(r,
\* r.RevisionNumber + 1, r's valid values, r's missed values) succeeds with
\* every payout equal to r's; and when r has at least two valid and two
\* missed outputs, equal valid and missed renter payouts and a missed sum
\* equal to its valid sum, ValidateRevision(r, result, 0, 0) returns no
\* error: it accepts with transfer 0 and burn 0 whenever the sum of r's
\* valid values is inside the currency range, and aborts in Currency.Add
\* otherwise.
C10_ReviseUnchangedOfConsistent ==
  RevisedUnchanged =>
    /\ built.status = "ok"
    /\ B.RevisionNumber = source.RevisionNumber + 1
    /\ Values(B.ValidProofOutputs) = Values(source.ValidProofOutputs)
    /\ Values(B.MissedProofOutputs) = Values(source.MissedProofOutputs)
    /\ (SelfConsistent(source) =>
          ValidateRevision(C, B, 0, 0) =
            IF SumValues(source.ValidProofOutputs) <= MaxCurrency
            THEN OkWith(0, 0) ELSE Panic("overflow"))

\* Revise re-issued a funded revision of a formed contract's shape.
C10_Witness ==
  /\ RevisedUnchanged
  /\ built.status = "ok"
  /\ SelfConsistent(source)
  /\ Formed(source)
  /\ ValidRenterPayout(source) = 1
  /\ ValidateRevision(C, B, 0, 0) = OkWith(0, 0)

\* C14: whenever ValidateRevision(C, R, payment, collateral) accepts, C's
\* renter valid and missed payouts are at least payment and C's host missed
\* payout at least collateral; the returned transfer is R's host valid payout
\* less C's, which is C's renter valid payout less R's and at least payment;
\* the returned burn is C's host missed payout less R's and at most
\* collateral.  Whenever it returns an error, transfer and burn are zero.
C14_RevisionTransferAndBurn ==
  /\ Accepted("ValidateRevision") =>
       /\ ValidRenterPayout(C) >= ret.payment
       /\ MissedRenterPayout(C) >= ret.payment
       /\ MissedHostPayout(C) >= ret.collateral
       /\ ret.transfer = ValidHostPayout(R) - ValidHostPayout(C)
       /\ ret.transfer = ValidRenterPayout(C) - ValidRenterPayout(R)
       /\ ret.transfer >= ret.payment
       /\ ret.burn = MissedHostPayout(C) - MissedHostPayout(R)
       /\ ret.burn <= ret.collateral
  /\ ret.op = "ValidateRevision" /\ ret.status = "error" =>
       ret.transfer = 0 /\ ret.burn = 0

\* A revision accepted that moves a payment of 1 to the host and burns a
\* collateral of 1.
C14_Witness ==
  /\ Accepted("ValidateRevision")
  /\ Formed(C)
  /\ ret.payment = 1 /\ ret.transfer = 1
  /\ ret.collateral = 1 /\ ret.burn = 1

\* The fields neither constructor touches.
SameIdentity(a, b) ==
  /\ a.ParentID = b.ParentID
  /\ a.UnlockConditions = b.UnlockConditions
  /\ a.UnlockHash = b.UnlockHash
  /\ a.WindowStart = b.WindowStart
  /\ a.WindowEnd = b.WindowEnd

\* C15: ClearingRevision(rev, values) returns an error (and the empty
\* revision) if rev is numbered MaxRevisionNumber or the number of values is
\* not the number of rev's valid outputs; otherwise it returns a revision
\* numbered MaxRevisionNumber with filesize 0 and an empty Merkle root, whose
\* valid outputs carry values[i] under rev's addresses, whose missed outputs
\* equal its valid outputs, and whose other fields are rev's.
C15_ClearingRevisionResult ==
  built.op = "ClearingRevision" =>
    IF source.RevisionNumber = MaxRevisionNumber
         \/ Len(newValid) # Len(source.ValidProofOutputs)
    THEN built.status = "error" /\ built.rev = EmptyRevision
    ELSE /\ built.status = "ok"
         /\ B.RevisionNumber = MaxRevisionNumber
         /\ B.Filesize = 0
         /\ B.FileMerkleRoot = EmptyHash
         /\ Values(B.ValidProofOutputs) = newValid
         /\ Addresses(B.ValidProofOutputs) = Addresses(source.ValidProofOutputs)
         /\ B.MissedProofOutputs = B.ValidProofOutputs
         /\ SameIdentity(B, source)

\* ClearingRevision succeeded on a formed contract's revision with values
\* other than its own.
C15_Witness ==
  /\ built.op = "ClearingRevision"
  /\ built.status = "ok"
  /\ Formed(source)
  /\ source.Filesize # 0
  /\ newValid # Values(source.ValidProofOutputs)
  /\ Values(B.MissedProofOutputs) = newValid

\* C16: Revise(rev, n, v, m) returns an error and the empty revision if the
\* length of v is not the number of rev's valid outputs, the length of m not
\* the number of its missed outputs, or n <= rev.RevisionNumber; otherwise it
\* returns a revision numbered n whose valid and missed outputs carry v[i]
\* and m[i] under rev's addresses, every other field being rev's.
C16_ReviseResult ==
  built.op = "Revise" =>
    IF \/ Len(newValid) # Len(source.ValidProofOutputs)
       \/ Len(newMissed) # Len(source.MissedProofOutputs)
       \/ newNumber <= source.RevisionNumber
    THEN built.status = "error" /\ built.rev = EmptyRevision
    ELSE /\ built.status = "ok"
         /\ B.RevisionNumber = newNumber
         /\ Values(B.ValidProofOutputs) = newValid
         /\ Values(B.MissedProofOutputs) = newMissed
         /\ Addresses(B.ValidProofOutputs) = Addresses(source.ValidProofOutputs)
         /\ Addresses(B.MissedProofOutputs) = Addresses(source.MissedProofOutputs)
         /\ B.Filesize = source.Filesize
         /\ B.FileMerkleRoot = source.FileMerkleRoot
         /\ SameIdentity(B, source)

\* Revise succeeded on a formed contract's revision with new values.
C16_Witness ==
  /\ built.op = "Revise"
  /\ built.status = "ok"
  /\ Formed(source)
  /\ newValid # Values(source.ValidProofOutputs)
  /\ newMissed # Values(source.MissedProofOutputs)
  /\ B.RevisionNumber = newNumber
  /\ Values(B.ValidProofOutputs) = newValid

\* C17 as stated: in a chain of revisions each accepted against its
\* predecessor by one of the four validators, every revision's valid values
\* sum to the first one's, and from the second on the missed values sum to
\* that total too.  Link by link: an accepted successor R of C has valid and
\* missed sums equal to C's valid sum.  (Stated for a predecessor with the
\* output counts of a formed contract and a valid sum inside the currency
\* range.)
C17_PayoutConserved ==
  /\ ret.op \in Validators /\ ret.status = "ok"
  /\ Formed(C)
  /\ SumValues(C.ValidProofOutputs) <= MaxCurrency
  => /\ SumValues(R.ValidProofOutputs) = SumValues(C.ValidProofOutputs)
     /\ SumValues(R.MissedProofOutputs) = SumValues(C.ValidProofOutputs)

\* The revision ClearingRevision returned, validated against the caller's
\* revision as it reads after the call.
ClearedThenValidated == ValidateClearingRevision(C, B)

\* C19 as stated: for rev below MaxRevisionNumber and v of the right length,
\* ValidateClearingRevision(rev, ClearingRevision(rev, v)) accepts exactly
\* when v is the list of valid output values rev had before the call.
\* (Stated for rev with the output counts of a formed contract.)
C19_ClearedAcceptedIffSameValues ==
  /\ built.op = "ClearingRevision"
  /\ Formed(source)
  /\ source.RevisionNumber < MaxRevisionNumber
  /\ Len(newValid) = Len(source.ValidProofOutputs)
  => (ClearedThenValidated.status = "ok"
        <=> newValid = Values(source.ValidProofOutputs))

\* The contract of a formation or renewal call, outputs by value, and the
\* host's settings and height of that call.
F == Deref(heap, fc)
S == args.settings
h == args.currentHeight

\* The window conditions, the sums being the uint64 sums of the two operands.
WindowConditions ==
  /\ F.WindowStart >= AddUint64(h, S.WindowSize)
  /\ F.WindowStart <= AddUint64(h, S.MaxDuration)
  /\ F.WindowEnd >= AddUint64(F.WindowStart, S.WindowSize)

FormationConditions ==
  /\ F.Filesize = 0
  /\ F.RevisionNumber = 0
  /\ F.FileMerkleRoot = EmptyHash
  /\ WindowConditions
  /\ Len(F.ValidProofOutputs) = 2
  /\ Len(F.MissedProofOutputs) = 3
  /\ F.ValidProofOutputs[2].Address = S.Address
  /\ F.MissedProofOutputs[2].Address = S.Address
  /\ F.MissedProofOutputs[3].Address = VoidAddress
  /\ F.MissedProofOutputs[3].Value = 0
  /\ ValidHostPayout(F) >= S.ContractPrice
  /\ ValidHostPayout(F) = MissedHostPayout(F)
  /\ ValidHostPayout(F) <= S.MaxCollateral
  /\ F.UnlockHash =
       UnlockHash([PublicKeys |-> <<args.renterKey, args.hostKey>>,
                   SignaturesRequired |-> 2])

AcceptedContract ==
  /\ ret.op \in {"ValidateContractFormation", "ValidateContractRenewal"}
  /\ ret.status = "ok"

\* C12 as stated: whenever ValidateContractFormation or
\* ValidateContractRenewal accepts at height h under settings S, whatever
\* the heights and settings, WindowStart >= h + S.WindowSize,
\* WindowStart <= h + S.MaxDuration and WindowEnd >= WindowStart +
\* S.WindowSize hold with the sums taken as integers that do not wrap.
C12_WindowFeasible ==
  AcceptedContract =>
    /\ F.WindowStart >= h + S.WindowSize
    /\ F.WindowStart <= h + S.MaxDuration
    /\ F.WindowEnd >= F.WindowStart + S.WindowSize

\* hostBurn of a renewal: host valid payout less host missed payout.
RenewalBurn == ValidHostPayout(F) - MissedHostPayout(F)

\* The last validator call was ValidateContractRenewal.
RenewalCalled == ret.op = "ValidateContractRenewal"

\* C13 as stated: whenever ValidateContractRenewal accepts, hostBurn is at
\* most baseHostRevenue + baseRiskedCollateral, the void missed value is
\* hostBurn, and the call returns baseHostRevenue, max(0, hostBurn -
\* baseHostRevenue) and the host valid payout less baseHostRevenue, the
\* last at most S.MaxCollateral; and a renewal whose host valid payout is
\* below its host missed payout or below baseHostRevenue is rejected with
\* an error and three zeros.
C13_RenewalReturns ==
  /\ RenewalCalled /\ ret.status = "ok" =>
       /\ RenewalBurn <= args.baseHostRevenue + args.baseRiskedCollateral
       /\ F.MissedProofOutputs[3].Value = RenewalBurn
       /\ ret.storageRevenue = args.baseHostRevenue
       /\ ret.riskedCollateral =
            (IF RenewalBurn > args.baseHostRevenue
             THEN RenewalBurn - args.baseHostRevenue ELSE 0)
       /\ ret.lockedCollateral = ValidHostPayout(F) - args.baseHostRevenue
       /\ ret.lockedCollateral <= S.MaxCollateral
  /\ RenewalCalled /\ Formed(F)
       /\ (\/ ValidHostPayout(F) < MissedHostPayout(F)
           \/ ValidHostPayout(F) < args.baseHostRevenue) =>
       /\ ret.status = "error"
       /\ ret.storageRevenue = 0
       /\ ret.riskedCollateral = 0
       /\ ret.lockedCollateral = 0

\* C18: whenever ValidateContractRenewal accepts, the risked collateral it
\* returns is at most baseRiskedCollateral and at most the locked
\* collateral it returns.
C18_RiskedWithinBaseAndLocked ==
  RenewalCalled /\ ret.status = "ok" =>
    /\ ret.riskedCollateral <= args.baseRiskedCollateral
    /\ ret.riskedCollateral <= ret.lockedCollateral

\* A renewal accepted with a risked collateral of 1.
C18_Witness ==
  /\ RenewalCalled
  /\ ret.status = "ok"
  /\ ret.riskedCollateral = 1
  /\ ret.lockedCollateral = 1
  /\ args.baseRiskedCollateral = 1

\* The first revision InitialRevision returned, outputs by value.
I == Deref(heap, built.rev)

\* C20: for every contract fc that ValidateContractFormation accepted with
\* keys (hostKey, renterKey), InitialRevision of the transaction whose first
\* contract is fc, called with the same keys, returns a revision numbered 1
\* whose other contract fields are fc's and whose unlock conditions are
\* [renterKey, hostKey] with 2 signatures required, their hash being the
\* revision's unlock hash.
C20_InitialRevisionOfAccepted ==
  /\ ret.op = "ValidateContractFormation" /\ ret.status = "ok"
  /\ built.op = "InitialRevision"
  =>
  /\ built.status = "ok"
  /\ I.RevisionNumber = 1
  /\ I.Filesize = F.Filesize
  /\ I.FileMerkleRoot = F.FileMerkleRoot
  /\ I.WindowStart = F.WindowStart
  /\ I.WindowEnd = F.WindowEnd
  /\ I.ValidProofOutputs = F.ValidProofOutputs
  /\ I.MissedProofOutputs = F.MissedProofOutputs
  /\ I.UnlockHash = F.UnlockHash
  /\ I.UnlockConditions.PublicKeys = <<args.renterKey, args.hostKey>>
  /\ I.UnlockConditions.SignaturesRequired = 2
  /\ UnlockHash(I.UnlockConditions) = I.UnlockHash

\* The first revision of an accepted contract whose host payout is 1, built
\* with the host's and the renter's own keys.
C20_Witness ==
  /\ ret.op = "ValidateContractFormation" /\ ret.status = "ok"
  /\ built.op = "InitialRevision" /\ built.status = "ok"
  /\ args.hostKey = HostKey /\ args.renterKey = RenterKey
  /\ ValidHostPayout(I) = 1
  /\ I.RevisionNumber = 1

\* C21 as stated: in every interleaving of Manager.volume, ReadSector,
\* WriteSector and Sync, every read or write of the volume's stats and busy
\* fields is made by a goroutine that holds volume.mu.
C21_VolumeStateUnderItsMutex == hist.unguarded = {}

\* The last MaxErrors of the errors recorded so far, in the order recorded.
NewestErrors ==
  LET n == hist.recorded
      k == IF n < MaxErrors THEN n ELSE MaxErrors
  IN [i \in 1..k |-> n - k + i]

\* C22: whenever volume.mu is free, after any interleaving of ReadSector,
\* WriteSector and Sync calls, stats.Errors holds at most MaxErrors entries,
\* the most recently recorded failures in the order they were recorded;
\* SuccessfulReads + FailedReads is the number of ReadSector calls that
\* have completed and SuccessfulWrites + FailedWrites the number of
\* WriteSector calls that have completed.
C22_StatsWhenMutexFree ==
  mu = 0 =>
    /\ Len(stats.Errors) <= MaxErrors
    /\ stats.Errors = NewestErrors
    /\ stats.SuccessfulReads + stats.FailedReads = hist.reads
    /\ stats.SuccessfulWrites + stats.FailedWrites = hist.writes

\* The mutex is free after more failures than the list keeps, with reads
\* and writes of both outcomes counted.
C22_Witness ==
  /\ mu = 0
  /\ hist.recorded > MaxErrors
  /\ Len(stats.Errors) = MaxErrors
  /\ stats.FailedReads >= 1
  /\ stats.FailedWrites >= 1
  /\ stats.SuccessfulReads >= 1

====
